---- MODULE Spec2Model ----
(***************************************************************************)
(* AmazonBedrockConverseGenerator (converse_generator.py): construction    *)
(* with capability resolution, the capability-gated run pipeline           *)
(* (validation, filtering and warnings, dispatch to converse or            *)
(* converse_stream, normalisation, error translation) and to_dict /        *)
(* from_dict.                                                              *)
(*                                                                         *)
(* Python values are modelled as follows.  Opaque values (callbacks, tool  *)
(* configurations, system prompts, usage ...) are strings, None is the     *)
(* string "None", and the empty list / mapping are "[]" / "{}".  A mapping *)
(* read with .get is a record whose DOMAIN is the set of keys present.     *)
(* A model identifier is a sequence of tokens; a registry pattern is a     *)
(* sequence of tokens in which "." matches any one token.                  *)
(***************************************************************************)
EXTENDS Integers, Sequences, FiniteSets, TLC

VARIABLES
    phase,      \* position of the caller: "start", "constructed",
                \* "construct_failed", "ran", "serialized", "serialize_failed",
                \* "restored", "restore_failed"
    self,       \* the generator instance: <<>> when none exists, else <<fields>>
    ctor_args,  \* the constructor call: <<>> or <<[parameters, session]>>
    ctor_error, \* the exception that left the constructor: <<>> or <<error>>
    args,       \* the arguments of the run call, as the caller supplied them
    messages,   \* the caller's message objects (rewritten in place by run)
    transport,  \* what the transport did when it was invoked
    calls,      \* the transport operations invoked, in order, with their request
    warnings,   \* the warnings logged, in order
    outcome,    \* how the last call of run or to_dict ended: <<>> before,
                \* else <<[returned, raised]>>
    data,       \* the mapping to_dict produced: <<>> or <<mapping>>
    restored    \* the instance from_dict built: <<>> or <<fields>>

vars == <<phase, self, ctor_args, ctor_error, args, messages, transport, calls, warnings,
          outcome, data, restored>>

None == "None"

\* Python truthiness of an opaque value.
Truthy(v) == v \notin {"None", "[]", "{}", ""}

\* a or b
Or(a, b) == IF Truthy(a) THEN a ELSE b

\* mapping.get(key) for a mapping of opaque values
Get(mapping, key) == IF key \in DOMAIN mapping THEN mapping[key] ELSE None

(***************************************************************************)
(* Bounds of the model.                                                    *)
(***************************************************************************)
\* content blocks in one run call, over all messages of the list
MaxBlocks == 2

(***************************************************************************)
(* Capability registry.                                                    *)
(***************************************************************************)
ModelCapability ==
    {"SYSTEM_PROMPTS", "VISION", "DOCUMENT_CHAT", "TOOL_USE",
     "STREAMING_TOOL_USE", "CONVERSE_STREAM", "GUARDRAILS"}

\* Ordered (pattern, capabilities) pairs; a dict iterates in insertion order.
MODEL_CAPABILITIES ==
    << [pattern |-> <<"anthropic", "claude-3">>,
        capabilities |-> ModelCapability],
       [pattern |-> <<"anthropic", ".">>,
        capabilities |-> {"SYSTEM_PROMPTS", "DOCUMENT_CHAT", "TOOL_USE",
                          "CONVERSE_STREAM", "GUARDRAILS"}],
       [pattern |-> <<"claude-vision-1">>,
        capabilities |-> {"SYSTEM_PROMPTS", "VISION", "CONVERSE_STREAM"}],
       [pattern |-> <<"amazon", "titan">>,
        capabilities |-> {"DOCUMENT_CHAT", "CONVERSE_STREAM", "GUARDRAILS"}],
       [pattern |-> <<"cohere">>,
        capabilities |-> {"TOOL_USE", "STREAMING_TOOL_USE", "CONVERSE_STREAM"}],
       [pattern |-> <<"mistral">>,
        capabilities |-> {"SYSTEM_PROMPTS", "VISION", "TOOL_USE", "GUARDRAILS"}] >>

\* re.match(pattern, model): the pattern is matched at the start of the
\* identifier and need not reach its end.
ReMatch(pattern, model) ==
    /\ Len(pattern) <= Len(model)
    /\ \A i \in 1..Len(pattern) : pattern[i] = "." \/ pattern[i] = model[i]

\* An exception object.  cause is <<>> or <<the exception it was raised from>>.
Exception(type, msg, model, cause) ==
    [type |-> type, msg |-> msg, model |-> model, cause |-> cause]

RECURSIVE FirstMatch(_, _)
FirstMatch(i, model) ==
    IF i > Len(MODEL_CAPABILITIES) THEN 0
    ELSE IF ReMatch(MODEL_CAPABILITIES[i].pattern, model) THEN i
    ELSE FirstMatch(i + 1, model)

\* _get_model_capabilities: the capabilities of the first matching pattern,
\* else ValueError("Unsupported model: <model>").
get_model_capabilities(model) ==
    LET i == FirstMatch(1, model) IN
    IF i = 0
    THEN [raised |-> TRUE, value |-> {},
          error |-> Exception("ValueError", "Unsupported model", model, <<>>)]
    ELSE [raised |-> FALSE, value |-> MODEL_CAPABILITIES[i].capabilities,
          error |-> Exception("None", "", <<>>, <<>>)]

(***************************************************************************)
(* Construction.                                                           *)
(***************************************************************************)
\* Secret.from_env_var([name], strict=False): a reference to an environment
\* variable, holding no secret value itself.
EnvVarSecret(name) == [_type |-> "env_var", _env_vars |-> <<name>>, _strict |-> FALSE]

\* Secret.from_token(value): holds the raw secret value.
TokenSecret(value) == [_type |-> "token", _token |-> value]

CredentialParameters ==
    <<"aws_access_key_id", "aws_secret_access_key", "aws_session_token",
      "aws_region_name", "aws_profile_name">>

\* The default value of each constructor parameter.
DefaultParameters ==
    [model |-> <<>>,
     aws_access_key_id |-> <<EnvVarSecret("AWS_ACCESS_KEY_ID")>>,
     aws_secret_access_key |-> <<EnvVarSecret("AWS_SECRET_ACCESS_KEY")>>,
     aws_session_token |-> <<EnvVarSecret("AWS_SESSION_TOKEN")>>,
     aws_region_name |-> <<EnvVarSecret("AWS_DEFAULT_REGION")>>,
     aws_profile_name |-> <<EnvVarSecret("AWS_PROFILE")>>,
     inference_config |-> None,
     tool_config |-> None,
     streaming_callback |-> <<>>,
     system_prompt |-> None]

\* get_aws_session(...) followed by session.client("bedrock-runtime"): the
\* client handle, or the provider's failure.
get_aws_session(session) ==
    IF session = "ok"
    THEN [raised |-> FALSE,
          error |-> Exception("None", "", <<>>, <<>>)]
    ELSE [raised |-> TRUE,
          error |-> Exception("AWSConfigurationError", "Failed to initialize the session",
                              <<>>, <<>>)]

\* except Exception as exception: raise AmazonBedrockConfigurationError(msg) from exception
ConfigurationError(exception) ==
    Exception("AmazonBedrockConfigurationError", "Could not connect to Amazon Bedrock",
              <<>>, <<exception>>)

\* __init__(**p), with `session` what the credential provider does.
\* [raised, self, error]: the instance built, or the exception that leaves
\* the constructor.
init(p, session) ==
    IF p.model = <<>>
    THEN [raised |-> TRUE, self |-> <<>>,
          error |-> <<Exception("ValueError", "'model' cannot be None or empty string",
                                <<>>, <<>>)>>]
    ELSE LET s == get_aws_session(session)
             c == get_model_capabilities(p.model)
         IN  IF s.raised
             THEN [raised |-> TRUE, self |-> <<>>, error |-> <<ConfigurationError(s.error)>>]
             ELSE IF c.raised
             THEN [raised |-> TRUE, self |-> <<>>, error |-> <<ConfigurationError(c.error)>>]
             ELSE [raised |-> FALSE,
                   self |-> << [model |-> p.model,
                                aws_access_key_id |-> p.aws_access_key_id,
                                aws_secret_access_key |-> p.aws_secret_access_key,
                                aws_session_token |-> p.aws_session_token,
                                aws_region_name |-> p.aws_region_name,
                                aws_profile_name |-> p.aws_profile_name,
                                inference_config |-> p.inference_config,
                                tool_config |-> p.tool_config,
                                streaming_callback |-> p.streaming_callback,
                                system_prompt |-> p.system_prompt,
                                model_capabilities |-> c.value] >>,
                   error |-> <<>>]

(***************************************************************************)
(* Messages and the wire codec.                                            *)
(***************************************************************************)
\* The content-block variants a message can hold (their Python class).
BlockKinds == {"str", "ImageBlock", "DocumentBlock"}

\* A ConverseMessage object: role and msg.content.content, its block list.
ConverseMessage(content) == [class |-> "ConverseMessage", role |-> "user", content |-> content]

\* An element of the list that is no ConverseMessage (a plain dict).
NotAMessage == [class |-> "dict", role |-> "user", content |-> <<>>]

\* isinstance(item, ImageBlock)
IsImageBlock(item) == item = "ImageBlock"

\* The wire form of one content block: a mapping with the variant's key.
BlockToDict(item) ==
    CASE item = "str" -> [text |-> "..."]
      [] item = "ImageBlock" -> [image |-> "..."]
      [] item = "DocumentBlock" -> [document |-> "..."]

BlockFromDict(d) ==
    CASE "text" \in DOMAIN d -> "str"
      [] "image" \in DOMAIN d -> "ImageBlock"
      [] "document" \in DOMAIN d -> "DocumentBlock"

\* ConverseMessage.to_dict
MessageToDict(message) ==
    [role |-> message.role,
     content |-> [i \in 1..Len(message.content) |-> BlockToDict(message.content[i])]]

\* ConverseMessage.from_dict
MessageFromDict(d) ==
    [class |-> "ConverseMessage", role |-> d.role,
     content |-> [i \in 1..Len(d.content) |-> BlockFromDict(d.content[i])]]

(***************************************************************************)
(* run: validation, capability filtering, warnings.                        *)
(***************************************************************************)
\* a or b, for objects (<<>> is None; every object is truthy)
OrObject(a, b) == IF a # <<>> THEN a ELSE b

\* IsValidMessages, were the elements of the list not looked at.
IsValidMessages_ListOnly(m) == m.is_list /\ Len(m.items) > 0

\* isinstance(messages, list) and len(messages) > 0 and
\* all(isinstance(message, ConverseMessage) for message in messages)
IsValidMessages(m) ==
    /\ m.is_list
    /\ Len(m.items) > 0
    /\ \A i \in 1..Len(m.items) : m.items[i].class = "ConverseMessage"

Warning(kind, model) == [kind |-> kind, model |-> model]

\* SystemPromptWarnings, were the prompt dropped without a warning.
SystemPromptWarnings_Silent(capabilities, system_prompt, model) == << >>

\* lines 175-179: the warning logged for a system prompt the model cannot take
SystemPromptWarnings(capabilities, system_prompt, model) ==
    IF "SYSTEM_PROMPTS" \notin capabilities /\ Truthy(system_prompt)
    THEN << Warning("system_prompts", model) >>
    ELSE << >>

\* lines 175-179: the system prompt after the check
FilterSystemPrompt(capabilities, system_prompt) ==
    IF "SYSTEM_PROMPTS" \notin capabilities /\ Truthy(system_prompt)
    THEN None
    ELSE system_prompt

\* WithoutImages, were the images removed from the list while it is iterated:
\* the block after a removed one is skipped.
RECURSIVE WithoutImages_RemoveWhileIterating(_)
WithoutImages_RemoveWhileIterating(content) ==
    IF content = << >> THEN << >>
    ELSE IF IsImageBlock(Head(content))
    THEN (IF Tail(content) = << >> THEN << >>
          ELSE << Head(Tail(content)) >>
                 \o WithoutImages_RemoveWhileIterating(Tail(Tail(content))))
    ELSE << Head(content) >> \o WithoutImages_RemoveWhileIterating(Tail(content))

\* [item for item in content if not isinstance(item, ImageBlock)]
RECURSIVE WithoutImages(_)
WithoutImages(content) ==
    IF content = << >> THEN << >>
    ELSE IF IsImageBlock(Head(content)) THEN WithoutImages(Tail(content))
    ELSE << Head(content) >> \o WithoutImages(Tail(content))

\* lines 181-183: every message's block list, rewritten when VISION is missing
FilterVision(capabilities, items) ==
    IF "VISION" \notin capabilities
    THEN [i \in 1..Len(items) |-> [items[i] EXCEPT !.content = WithoutImages(@)]]
    ELSE items

\* lines 184-185: evaluated on the block lists as they are after line 183
VisionWarnings(capabilities, items, model) ==
    IF /\ "VISION" \notin capabilities
       /\ \E i \in 1..Len(items) :
            \E j \in 1..Len(items[i].content) : IsImageBlock(items[i].content[j])
    THEN << Warning("vision", model) >>
    ELSE << >>

\* lines 187-190
DocumentChatWarnings(capabilities, model) ==
    IF "DOCUMENT_CHAT" \notin capabilities
    THEN << Warning("document_chat", model) >>
    ELSE << >>

\* lines 192-194
ToolUseWarnings(capabilities, tool_config, model) ==
    IF "TOOL_USE" \notin capabilities /\ Truthy(tool_config)
    THEN << Warning("tools", model) >>
    ELSE << >>

FilterToolConfig(capabilities, tool_config) ==
    IF "TOOL_USE" \notin capabilities /\ Truthy(tool_config)
    THEN None
    ELSE tool_config

\* lines 196-199: a warning only
StreamingToolUseWarnings(capabilities, streaming_callback, tool_config, model) ==
    IF /\ "STREAMING_TOOL_USE" \notin capabilities
       /\ streaming_callback # <<>>
       /\ Truthy(tool_config)
    THEN << Warning("streaming_tool_use", model) >>
    ELSE << >>

\* lines 201-208: the request; toolConfig is a key only when a tool
\* configuration is left.  The system prompt is no part of it.
RequestKwargs(model, inference_config, items, tool_config) ==
    LET wire == [i \in 1..Len(items) |-> MessageToDict(items[i])] IN
    IF Truthy(tool_config)
    THEN [modelId |-> model, inferenceConfig |-> inference_config,
          messages |-> wire, toolConfig |-> tool_config]
    ELSE [modelId |-> model, inferenceConfig |-> inference_config,
          messages |-> wire]

(***************************************************************************)
(* run: dispatch, transport, normalisation, error translation.             *)
(***************************************************************************)
\* The classes an exception is an instance of.
Bases(type) ==
    CASE type = "ClientError" -> {"ClientError", "Exception"}
      [] type = "ReadTimeoutError" ->
            {"ReadTimeoutError", "HTTPClientError", "BotoCoreError", "Exception"}
      [] type = "KeyError" -> {"KeyError", "LookupError", "Exception"}
      [] type = "ValueError" -> {"ValueError", "Exception"}
      [] OTHER -> {type, "Exception"}

IsInstance(exception, class) == class \in Bases(exception.type)

\* UseStream, were streaming switched off as the streaming-tool-use warning
\* says.
UseStream_OffForTools(capabilities, streaming_callback, tool_config) ==
    /\ streaming_callback # <<>>
    /\ "CONVERSE_STREAM" \in capabilities
    /\ ~("STREAMING_TOOL_USE" \notin capabilities /\ Truthy(tool_config))

\* line 211: streaming_callback and ModelCapability.CONVERSE_STREAM in self.model_capabilities
UseStream(capabilities, streaming_callback, tool_config) ==
    streaming_callback # <<>> /\ "CONVERSE_STREAM" \in capabilities

\* get_stream_message(stream, streaming_callback): the stream is consumed to
\* its end; the text deltas make up the message, the metadata event and the
\* stop reason make up the metadata mapping.
GetStreamMessage(stream) ==
    LET deltas == SelectSeq(stream, LAMBDA e : e.type = "contentBlockDelta")
        stops == SelectSeq(stream, LAMBDA e : e.type = "messageStop")
        metas == SelectSeq(stream, LAMBDA e : e.type = "metadata")
        meta == IF metas = << >> THEN << >> ELSE metas[1].value
        stop == IF stops = << >> THEN None ELSE stops[1].value
    IN  [message |-> [class |-> "ConverseMessage", role |-> "assistant",
                      content |-> IF deltas = << >> THEN << >> ELSE << "str" >>],
         metadata |-> [k \in DOMAIN meta \cup {"stopReason"} |->
                          IF k = "stopReason" THEN stop ELSE meta[k]]]

\* GuardrailTrace, were the trace passed on whatever the capabilities.
GuardrailTrace_Unconditional(capabilities, metadata) == Get(metadata, "trace")

\* lines 230-232
GuardrailTrace(capabilities, metadata) ==
    IF "GUARDRAILS" \in capabilities THEN Get(metadata, "trace") ELSE None

\* lines 226-234
Result(capabilities, message, metadata) ==
    [message |-> message,
     usage |-> Get(metadata, "usage"),
     metrics |-> Get(metadata, "metrics"),
     guardrail_trace |-> GuardrailTrace(capabilities, metadata),
     stop_reason |-> Get(metadata, "stopReason")]

Returned(value) == [returned |-> << value >>, raised |-> << >>]
Raised(exception) == [returned |-> << >>, raised |-> << exception >>]

\* lines 216-224: the buffered response parsed into (message, metadata)
ParseResponse(capabilities, response) ==
    IF "output" \notin DOMAIN response
    THEN Raised(Exception("KeyError", "Response does not contain 'output'", << >>, << >>))
    ELSE IF "message" \notin DOMAIN response.output
    THEN Raised(Exception("KeyError", "Response 'output' does not contain 'message'",
                          << >>, << >>))
    ELSE Returned(Result(capabilities, MessageFromDict(response.output.message), response))

\* lines 211-234: the body of the try statement, with t what the transport
\* does when invoked: [calls, end].
TryBody(capabilities, streaming_callback, tool_config, request, t) ==
    IF UseStream(capabilities, streaming_callback, tool_config)
    THEN [calls |-> << [op |-> "converse_stream", request |-> request] >>,
          end |-> IF t.raises # << >>
                  THEN Raised(t.raises[1])
                  ELSE LET sm == GetStreamMessage(t.stream) IN
                       Returned(Result(capabilities, sm.message, sm.metadata))]
    ELSE [calls |-> << [op |-> "converse", request |-> request] >>,
          end |-> IF t.raises # << >>
                  THEN Raised(t.raises[1])
                  ELSE ParseResponse(capabilities, t.response)]

\* ExceptClientError, were the handler "except Exception".
ExceptClientError_CatchAll(end, model) ==
    IF end.raised # << >> /\ IsInstance(end.raised[1], "Exception")
    THEN Raised(Exception("AmazonBedrockInferenceError",
                          "Could not run inference on Amazon Bedrock model",
                          model, << end.raised[1] >>))
    ELSE end

\* ExceptClientError, were the model identifier left out of the message.
ExceptClientError_Anonymous(end, model) ==
    IF end.raised # << >> /\ IsInstance(end.raised[1], "ClientError")
    THEN Raised(Exception("AmazonBedrockInferenceError",
                          "Could not run inference on Amazon Bedrock model",
                          << >>, << end.raised[1] >>))
    ELSE end

\* lines 236-238: except ClientError as exception: raise
\* AmazonBedrockInferenceError(msg) from exception
ExceptClientError(end, model) ==
    IF end.raised # << >> /\ IsInstance(end.raised[1], "ClientError")
    THEN Raised(Exception("AmazonBedrockInferenceError",
                          "Could not run inference on Amazon Bedrock model",
                          model, << end.raised[1] >>))
    ELSE end

\* run(messages, streaming_callback, inference_config, tool_config,
\* system_prompt) on the instance g, with t what the transport does when it
\* is invoked: the caller's message objects afterwards, the warnings logged,
\* the transport calls made and how run ends.
run(g, a, t) ==
    LET streaming_callback == OrObject(a.streaming_callback, g.streaming_callback)
        system_prompt0 == Or(a.system_prompt, g.system_prompt)
        capabilities == g.model_capabilities
    IN
    IF ~IsValidMessages(a.messages)
    THEN [messages |-> a.messages.items, warnings |-> << >>, calls |-> << >>,
          end |-> Raised(Exception("ValueError",
                                   "requires a list of ConverseMessage objects as input",
                                   g.model, << >>))]
    ELSE
    LET w1 == SystemPromptWarnings(capabilities, system_prompt0, g.model)
        system_prompt == FilterSystemPrompt(capabilities, system_prompt0)
        items == FilterVision(capabilities, a.messages.items)
        w2 == VisionWarnings(capabilities, items, g.model)
        w3 == DocumentChatWarnings(capabilities, g.model)
        w4 == ToolUseWarnings(capabilities, a.tool_config, g.model)
        tool_config == FilterToolConfig(capabilities, a.tool_config)
        w5 == StreamingToolUseWarnings(capabilities, streaming_callback, tool_config,
                                       g.model)
        request == RequestKwargs(g.model, a.inference_config, items, tool_config)
        body == TryBody(capabilities, streaming_callback, tool_config, request, t)
    IN  [messages |-> items,
         warnings |-> w1 \o w2 \o w3 \o w4 \o w5,
         calls |-> body.calls,
         end |-> ExceptClientError(body.end, g.model)]

(***************************************************************************)
(* to_dict and from_dict.                                                  *)
(***************************************************************************)
\* Secret.to_dict: an environment-variable secret becomes a mapping naming
\* the variables; a token secret refuses to be serialized.
SecretToDict(secret) ==
    IF secret._type = "env_var"
    THEN Returned([type |-> "env_var", env_vars |-> secret._env_vars,
                   strict |-> secret._strict])
    ELSE Raised(Exception("ValueError", "Cannot serialize token-based secret",
                          << >>, << >>))

\* Secret.from_dict
SecretFromDict(d) == [_type |-> d.type, _env_vars |-> d.env_vars, _strict |-> d.strict]

\* serialize_callable: the dotted path of a named function
SerializeCallable(callable) == << callable.module, callable.name >>

\* deserialize_callable: the function a dotted path names
DeserializeCallable(path) == [module |-> path[1], name |-> path[2]]

ClassName == "AmazonBedrockConverseGenerator"

\* to_dict(self): the keyword arguments handed to default_to_dict become
\* init_parameters.
to_dict(g) ==
    LET Ser(k) == IF g[k] # << >> THEN SecretToDict(g[k][1]) ELSE Returned(<< >>)
        failed == {i \in 1..Len(CredentialParameters) :
                     Ser(CredentialParameters[i]).raised # << >>}
        Value(k) == IF g[k] # << >> THEN Ser(k).returned ELSE << >>
    IN  IF failed # {}
        THEN Ser(CredentialParameters[CHOOSE i \in failed : \A j \in failed : i <= j])
        ELSE Returned(
               [type |-> ClassName,
                init_parameters |->
                  [aws_access_key_id |-> Value("aws_access_key_id"),
                   aws_secret_access_key |-> Value("aws_secret_access_key"),
                   aws_session_token |-> Value("aws_session_token"),
                   aws_region_name |-> Value("aws_region_name"),
                   aws_profile_name |-> Value("aws_profile_name"),
                   model |-> g.model,
                   streaming_callback |->
                     IF g.streaming_callback # << >>
                     THEN << SerializeCallable(g.streaming_callback[1]) >>
                     ELSE << >>]])

\* from_dict(data), up to the call of the constructor: the constructor
\* arguments.  The callback and the secrets present are deserialized
\* (lines 269-282); default_from_dict passes init_parameters as keyword
\* arguments, so a parameter that is no key takes its default.
FromDictParameters(d) ==
    LET ip == d.init_parameters
        Convert(k) ==
            IF k = "streaming_callback"
            THEN (IF ip[k] # << >> THEN << DeserializeCallable(ip[k][1]) >> ELSE << >>)
            ELSE IF \E i \in 1..Len(CredentialParameters) : CredentialParameters[i] = k
            THEN (IF ip[k] # << >> THEN << SecretFromDict(ip[k][1]) >> ELSE << >>)
            ELSE ip[k]
    IN  [k \in DOMAIN DefaultParameters |->
            IF k \in DOMAIN ip THEN Convert(k) ELSE DefaultParameters[k]]

\* from_dict(data)
from_dict(d, session) == init(FromDictParameters(d), session)

(***************************************************************************)
(* The inputs drawn by the actions.                                        *)
(***************************************************************************)
ModelIds ==
    { << >>,
      << "anthropic", "claude-3", "sonnet" >>,
      << "anthropic", "claude-v2" >>,
      << "claude-vision-1" >>,
      << "amazon", "titan", "text" >>,
      << "cohere", "command-r" >>,
      << "mistral", "large" >>,
      << "amazon", "nova" >>,
      << "meta", "llama3" >> }

Callback == [module |-> "haystack.components.generators.utils",
             name |-> "print_streaming_chunk"]

\* Block lists of exactly n blocks.
Contents(n) == [1..n -> BlockKinds]

\* Elements of weight n: a message of n blocks, or (weight 1) a non-message.
Elements(n) ==
    {ConverseMessage(c) : c \in Contents(n)} \cup (IF n = 1 THEN {NotAMessage} ELSE {})

\* Lists of elements of total weight at most n.
RECURSIVE Lists(_)
Lists(n) ==
    { << >> } \cup
    UNION { { << e >> \o l : e \in Elements(k), l \in Lists(n - k) } : k \in 1..n }

MessageInputs ==
    {[is_list |-> TRUE, items |-> l] : l \in Lists(MaxBlocks)} \cup
    {[is_list |-> FALSE, items |-> l] : l \in Lists(MaxBlocks - 1)}

RunArguments ==
    [messages : MessageInputs,
     streaming_callback : {<< >>, << Callback >>},
     inference_config : {"{}"},
     tool_config : {None, "{tools: [...]}"},
     system_prompt : {None, "[]", "[{text: ...}]"}]

\* Constructor parameters of the generators that run is called on: the
\* parameters run never reads keep their defaults.
RunParameters ==
    {[DefaultParameters EXCEPT !.model = m, !.streaming_callback = cb,
                               !.system_prompt = sp] :
        m \in ModelIds, cb \in {<< >>, << Callback >>}, sp \in {None, "[{text: ...}]"}}

\* Constructor parameters of the generators that are serialized.
AllParameters ==
    {[model |-> m,
      aws_access_key_id |-> k,
      aws_secret_access_key |-> DefaultParameters.aws_secret_access_key,
      aws_session_token |-> st,
      aws_region_name |-> rg,
      aws_profile_name |-> DefaultParameters.aws_profile_name,
      inference_config |-> ic,
      tool_config |-> tc,
      streaming_callback |-> cb,
      system_prompt |-> sp] :
        m \in ModelIds,
        k \in {<< >>, DefaultParameters.aws_access_key_id, << TokenSecret("AKIA...") >>},
        st \in {<< >>, DefaultParameters.aws_session_token},
        rg \in {DefaultParameters.aws_region_name, << EnvVarSecret("AWS_REGION") >>},
        ic \in {None, "{maxTokens: 100}"},
        tc \in {None, "{tools: [...]}"},
        cb \in {<< >>, << Callback >>},
        sp \in {None, "[{text: ...}]"}}

ResponseMessage == [role |-> "assistant", content |-> << [text |-> "..."] >>]

\* What converse returns: the empty mapping, or usage, metrics and stopReason,
\* with or without a trace, with or without an output, which is with or
\* without a message.
Responses ==
    LET base == [usage |-> "usage", metrics |-> "metrics", stopReason |-> "end_turn"]
        traced == [usage |-> "usage", metrics |-> "metrics", stopReason |-> "end_turn",
                   trace |-> "trace"]
        WithOutput(r, o) == [k \in DOMAIN r \cup {"output"} |->
                                IF k = "output" THEN o ELSE r[k]]
    IN  {<< >>, base, traced} \cup
        {WithOutput(r, o) : r \in {base, traced},
                            o \in {<< >>, [message |-> ResponseMessage]}}

\* What converse_stream delivers.
Streams ==
    LET Events(meta) ==
            << [type |-> "messageStart", value |-> "assistant"],
               [type |-> "contentBlockDelta", value |-> "..."],
               [type |-> "messageStop", value |-> "end_turn"],
               [type |-> "metadata", value |-> meta] >>
    IN  { Events([usage |-> "usage", metrics |-> "metrics"]),
          Events([usage |-> "usage", metrics |-> "metrics", trace |-> "trace"]) }

\* What the transport raises: a service-side error response (ClientError) or
\* a failure on the way to the service.
TransportExceptions ==
    { Exception("ClientError", "ThrottlingException", << >>, << >>),
      Exception("ClientError", "AccessDeniedException", << >>, << >>),
      Exception("ReadTimeoutError", "Read timeout on endpoint URL", << >>, << >>) }

NotInvoked == [op |-> "none", raises |-> << >>, response |-> << >>, stream |-> << >>]

TransportBehaviours ==
    {NotInvoked} \cup
    {[op |-> "converse", raises |-> << >>, response |-> r, stream |-> << >>] :
        r \in Responses} \cup
    {[op |-> "converse_stream", raises |-> << >>, response |-> << >>, stream |-> s] :
        s \in Streams} \cup
    {[op |-> o, raises |-> << e >>, response |-> << >>, stream |-> << >>] :
        o \in {"converse", "converse_stream"}, e \in TransportExceptions}

(***************************************************************************)
(* The state machine.                                                      *)
(***************************************************************************)
Init ==
    /\ phase = "start"
    /\ self = << >>
    /\ ctor_args = << >>
    /\ ctor_error = << >>
    /\ args = << >>
    /\ messages = << >>
    /\ transport = << >>
    /\ calls = << >>
    /\ warnings = << >>
    /\ outcome = << >>
    /\ data = << >>
    /\ restored = << >>

\* The caller constructs a generator with parameters p.
ConstructWith(parameters) ==
    /\ phase = "start"
    /\ \E p \in parameters, session \in {"ok", "fail"} :
         LET r == init(p, session) IN
         /\ ctor_args' = << [parameters |-> p, session |-> session] >>
         /\ self' = r.self
         /\ ctor_error' = r.error
         /\ phase' = IF r.raised THEN "construct_failed" ELSE "constructed"
    /\ UNCHANGED <<args, messages, transport, calls, warnings, outcome, data, restored>>

Construct == ConstructWith(RunParameters)

\* The caller calls run on the generator; the transport behaves as t.
Run ==
    /\ phase = "constructed"
    /\ \E a \in RunArguments, t \in TransportBehaviours :
         LET r == run(self[1], a, t) IN
         /\ t.op = (IF r.calls = << >> THEN "none" ELSE r.calls[1].op)
         /\ args' = << a >>
         /\ transport' = << t >>
         /\ messages' = r.messages
         /\ warnings' = r.warnings
         /\ calls' = r.calls
         /\ outcome' = << r.end >>
         /\ phase' = "ran"
    /\ UNCHANGED <<self, ctor_args, ctor_error, data, restored>>

\* The caller constructs a generator with any parameters.
ConstructAny == ConstructWith(AllParameters)

\* The caller serializes the generator.
ToDict ==
    /\ phase = "constructed"
    /\ LET r == to_dict(self[1]) IN
       /\ data' = r.returned
       /\ outcome' = << r >>
       /\ phase' = IF r.raised # << >> THEN "serialize_failed" ELSE "serialized"
    /\ UNCHANGED <<self, ctor_args, ctor_error, args, messages, transport, calls, warnings,
                   restored>>

\* The caller rebuilds a generator from the serialized mapping.
FromDict ==
    /\ phase = "serialized"
    /\ \E session \in {"ok", "fail"} :
         LET r == from_dict(data[1], session) IN
         /\ restored' = r.self
         /\ ctor_error' = r.error
         /\ phase' = IF r.raised THEN "restore_failed" ELSE "restored"
    /\ UNCHANGED <<self, ctor_args, args, messages, transport, calls, warnings, outcome,
                   data>>

Next == Construct \/ Run

Spec == Init /\ [][Next]_vars

NextSer == ConstructAny \/ ToDict \/ FromDict

SpecSer == Init /\ [][NextSer]_vars

(***************************************************************************)
(* Properties.                                                             *)
(***************************************************************************)
G == self[1]
A == args[1]
T == transport[1]

\* The input is a list, is not empty, and holds Conversation Messages only.
ValidInput(m) ==
    /\ m.is_list
    /\ m.items # << >>
    /\ \A i \in DOMAIN m.items : m.items[i].class = "ConverseMessage"

HasImage(items) ==
    \E i \in DOMAIN items : \E j \in DOMAIN items[i].content :
        items[i].content[j] = "ImageBlock"

NoPatternMatches(model) ==
    \A i \in DOMAIN MODEL_CAPABILITIES : ~ReMatch(MODEL_CAPABILITIES[i].pattern, model)

\* A constructor call with a non-empty identifier that no registry pattern
\* matches, made while the credential provider works, is over.
UnsupportedModelConstructed ==
    /\ phase # "start"
    /\ ctor_args # << >>
    /\ ctor_args[1].session = "ok"
    /\ ctor_args[1].parameters.model # << >>
    /\ NoPatternMatches(ctor_args[1].parameters.model)

\* C1: constructing the generator with a model identifier that matches no
\* registry pattern fails, and the error that reaches the caller is the
\* unsupported-model error of the registry, carrying the identifier; no
\* instance exists.
C1_UnsupportedModelError ==
    UnsupportedModelConstructed =>
        /\ self = << >>
        /\ ctor_error # << >>
        /\ ctor_error[1].type = "ValueError"
        /\ ctor_error[1].msg = "Unsupported model"
        /\ ctor_error[1].model = ctor_args[1].parameters.model

ValidRun == phase = "ran" /\ ValidInput(A.messages)

CallbackInEffect == A.streaming_callback # << >> \/ G.streaming_callback # << >>

\* C2: a valid run invokes exactly one transport operation: converse_stream
\* if and only if a callback is in effect (from run, or else from the
\* constructor) and the model has CONVERSE_STREAM, converse otherwise,
\* whatever the tool configuration and STREAMING_TOOL_USE.
C2_StreamingDispatch ==
    ValidRun =>
        /\ Len(calls) = 1
        /\ calls[1].op = IF CallbackInEffect /\ "CONVERSE_STREAM" \in G.model_capabilities
                         THEN "converse_stream"
                         ELSE "converse"

\* C2 witness: the callback comes from the constructor only, a tool
\* configuration is kept, the streaming-tool-use warning is logged, and the
\* streaming operation is invoked all the same.
C2_Witness ==
    /\ ValidRun
    /\ A.streaming_callback = << >>
    /\ G.streaming_callback # << >>
    /\ "toolConfig" \in DOMAIN calls[1].request
    /\ \E i \in DOMAIN warnings : warnings[i].kind = "streaming_tool_use"
    /\ calls[1].op = "converse_stream"

NonImages(content) == SelectSeq(content, LAMBDA item : item # "ImageBlock")

\* C3: after a valid run on a model without VISION, every message of the
\* caller holds exactly its non-image blocks, in their order, and the request
\* holds the wire form of those blocks and no image; with VISION the caller's
\* messages are untouched and the request holds every block.
C3_VisionFilter ==
    ValidRun =>
        /\ Len(messages) = Len(A.messages.items)
        /\ Len(calls[1].request.messages) = Len(A.messages.items)
        /\ \A i \in DOMAIN messages :
             LET before == A.messages.items[i].content
                 expected == IF "VISION" \in G.model_capabilities
                             THEN before ELSE NonImages(before)
                 sent == calls[1].request.messages[i].content
             IN  /\ messages[i].content = expected
                 /\ messages[i].role = A.messages.items[i].role
                 /\ Len(sent) = Len(expected)
                 /\ \A j \in DOMAIN sent : sent[j] = BlockToDict(expected[j])
                 /\ "VISION" \notin G.model_capabilities =>
                        \A j \in DOMAIN sent : "image" \notin DOMAIN sent[j]

\* C3 witness: a model without VISION was given an image block, run removed
\* it from the caller's message, and a non-image block is kept.
C3_Witness ==
    /\ ValidRun
    /\ "VISION" \notin G.model_capabilities
    /\ HasImage(A.messages.items)
    /\ ~HasImage(messages)
    /\ \E i \in DOMAIN messages : messages[i].content # << >>
    /\ \E i \in DOMAIN messages : Len(messages[i].content) < Len(A.messages.items[i].content)

VisionWarningCount ==
    Cardinality({i \in DOMAIN warnings :
                    warnings[i] = Warning("vision", G.model)})

\* C4: a valid run on a model without VISION logs exactly one vision warning
\* naming the model when the supplied messages held an image block, and none
\* when they held none.
C4_OneVisionWarning ==
    (ValidRun /\ "VISION" \notin G.model_capabilities) =>
        VisionWarningCount = (IF HasImage(A.messages.items) THEN 1 ELSE 0)

\* The trace field of the metadata the transport delivered.
TransportTrace ==
    IF T.op = "converse"
    THEN (IF "trace" \in DOMAIN T.response THEN T.response.trace ELSE None)
    ELSE LET metas == {i \in DOMAIN T.stream : T.stream[i].type = "metadata"} IN
         IF \E i \in metas : "trace" \in DOMAIN T.stream[i].value
         THEN T.stream[CHOOSE i \in metas : "trace" \in DOMAIN T.stream[i].value].value.trace
         ELSE None

\* C5: the guardrail_trace of a returned result is None when the model lacks
\* GUARDRAILS, whatever the transport delivered, and is the trace field of
\* the transport metadata when the model has GUARDRAILS, on both paths.
C5_GuardrailTrace ==
    (phase = "ran" /\ outcome[1].returned # << >>) =>
        outcome[1].returned[1].guardrail_trace =
            (IF "GUARDRAILS" \in G.model_capabilities THEN TransportTrace ELSE None)

\* C5 witness: the streaming path delivered a trace to a model without
\* GUARDRAILS and the result holds none.
C5_Witness ==
    /\ phase = "ran"
    /\ outcome[1].returned # << >>
    /\ T.op = "converse_stream"
    /\ "GUARDRAILS" \notin G.model_capabilities
    /\ TransportTrace = "trace"
    /\ outcome[1].returned[1].guardrail_trace = None

\* C6: run on an input that is not a list, is empty or holds a non-message
\* raises the invalid-input error (ValueError); no transport operation is
\* invoked, no message of the caller is changed and no warning is logged.
C6_InvalidInput ==
    (phase = "ran" /\ ~ValidInput(A.messages)) =>
        /\ outcome[1].returned = << >>
        /\ outcome[1].raised # << >>
        /\ outcome[1].raised[1].type = "ValueError"
        /\ calls = << >>
        /\ T = NotInvoked
        /\ messages = A.messages.items
        /\ warnings = << >>

\* C6 witness: a model without VISION, TOOL_USE and SYSTEM_PROMPTS was given
\* a list of an image message and a non-message, with a system prompt and a
\* tool configuration, and run raised.
C6_Witness ==
    /\ phase = "ran"
    /\ A.messages.is_list
    /\ Len(A.messages.items) = 2
    /\ HasImage(A.messages.items)
    /\ \E i \in DOMAIN A.messages.items : A.messages.items[i].class # "ConverseMessage"
    /\ G.model_capabilities \cap {"VISION", "TOOL_USE", "SYSTEM_PROMPTS"} = {}
    /\ A.tool_config # None
    /\ Truthy(A.system_prompt)
    /\ outcome[1].raised # << >>

MalformedResponse ==
    /\ phase = "ran"
    /\ T.op = "converse"
    /\ T.raises = << >>
    /\ ("output" \notin DOMAIN T.response \/ "message" \notin DOMAIN T.response.output)

\* C7: on the buffered path a response without "output", or whose "output"
\* has no "message", makes run raise the malformed-response error (KeyError)
\* itself, not wrapped in an inference error, and run returns nothing.
C7_MalformedResponse ==
    MalformedResponse =>
        /\ calls # << >> /\ calls[1].op = "converse"
        /\ outcome[1].returned = << >>
        /\ outcome[1].raised # << >>
        /\ outcome[1].raised[1].type = "KeyError"
        /\ outcome[1].raised[1].cause = << >>

\* C7 witness: the response {} reached a generator and run raised KeyError.
C7_Witness ==
    /\ MalformedResponse
    /\ T.response = << >>
    /\ outcome[1].raised # << >>
    /\ outcome[1].raised[1].msg = "Response does not contain 'output'"

TransportFailed == phase = "ran" /\ T.op # "none" /\ T.raises # << >>

WrappedInInferenceError(e) ==
    /\ outcome[1].raised # << >>
    /\ outcome[1].raised[1].type = "AmazonBedrockInferenceError"
    /\ outcome[1].raised[1].cause = << e >>
    /\ outcome[1].raised[1].model = G.model

ConstructorParameters == DOMAIN DefaultParameters

\* C9: from_dict(to_dict(g)) builds a generator with the same value for each
\* constructor parameter as g.
C9_RoundTrip ==
    phase = "restored" =>
        \A k \in ConstructorParameters : restored[1][k] = self[1][k]

SystemPromptInEffect == Truthy(A.system_prompt) \/ Truthy(G.system_prompt)

\* The same run with no system prompt, neither from run nor from the
\* constructor.
WithoutSystemPrompt ==
    run([G EXCEPT !.system_prompt = None], [A EXCEPT !.system_prompt = None], T)

\* C10: a valid run on a model without SYSTEM_PROMPTS with a non-empty
\* system prompt makes the transport call, ends and leaves the messages as
\* the same run without a system prompt does, and logs that run's warnings
\* plus one: the system-prompt warning naming the model.
C10_SystemPromptIgnored ==
    (ValidRun /\ "SYSTEM_PROMPTS" \notin G.model_capabilities /\ SystemPromptInEffect) =>
        /\ calls = WithoutSystemPrompt.calls
        /\ outcome[1] = WithoutSystemPrompt.end
        /\ messages = WithoutSystemPrompt.messages
        /\ Len(warnings) = Len(WithoutSystemPrompt.warnings) + 1
        /\ \E i \in DOMAIN warnings :
             /\ warnings[i] = Warning("system_prompts", G.model)
             /\ SubSeq(warnings, 1, i - 1) \o SubSeq(warnings, i + 1, Len(warnings))
                  = WithoutSystemPrompt.warnings

\* C10 witness: run was given a system prompt on a model without
\* SYSTEM_PROMPTS, logged the warning and returned a result.
C10_Witness ==
    /\ ValidRun
    /\ "SYSTEM_PROMPTS" \notin G.model_capabilities
    /\ Truthy(A.system_prompt)
    /\ outcome[1].returned # << >>
    /\ \E i \in DOMAIN warnings : warnings[i] = Warning("system_prompts", G.model)

====
